---- MODULE Spec2Model ----
(***************************************************************************)
(* The lookup-aggregation engine of myfootprint: the /api/search route in  *)
(* its two implementations (the in-process one that calls the lookup       *)
(* sources with fetch, and the one that runs people_search.py as a child   *)
(* process), and the photo route, which runs photo_search.py as a child    *)
(* process.  One behaviour of the model is one request: the engine keeps   *)
(* no state between requests.                                              *)
(*                                                                         *)
(* JavaScript values are modelled as strings ("true", "false",             *)
(* "undefined", "null"), query strings as sequences of one-character       *)
(* strings, objects as records.  The timestamp of a SearchResult is left   *)
(* out: it is one value per request and nothing reads it.                  *)
(***************************************************************************)
EXTENDS Integers, Sequences, FiniteSets, TLC

\* ------------------------------------------------------------------ bounds
\* Longest query string of the exhaustive input set.
MaxLen == 2

\* Most data events of the child's stdout, and of its stderr, in one run.
MaxChunks == 2

\* Most requests of the search page awaiting their outcome at once.
MaxInFlight == 2

\* Characters a query is made of: a letter, the '@' and the space.
Alphabet == {"a", "@", " "}

\* ------------------------------------------------------- JavaScript values
JsTrue == "true"
JsFalse == "false"
JsUndefined == "undefined"
JsNull == "null"

\* A boolean as a JavaScript value.
JsBool(b) == IF b THEN JsTrue ELSE JsFalse

\* Truthiness of the values a found flag can take (r => r.found).
Truthy(v) == v \notin {JsFalse, JsUndefined, JsNull}

\* a && b, on a value a and a boolean b.
JsAnd(a, b) == IF Truthy(a) THEN JsBool(b) ELSE a

\* The query of a body that has no query field.
Missing == <<"undefined">>

\* !query
Falsy(q) == q = <<>> \/ q = Missing

\* query.includes(c)
Includes(q, c) == \E i \in DOMAIN q : q[i] = c

\* The index of the first c in q, 0 when there is none.
IndexOf(q, c) ==
  IF Includes(q, c) THEN CHOOSE i \in DOMAIN q : q[i] = c /\ \A j \in 1..(i - 1) : q[j] # c
  ELSE 0

\* q.split(c)[0]
SplitHead(q, c) == IF Includes(q, c) THEN SubSeq(q, 1, IndexOf(q, c) - 1) ELSE q

\* q.split(c).slice(1).join(c)
SplitRest(q, c) == IF Includes(q, c) THEN SubSeq(q, IndexOf(q, c) + 1, Len(q)) ELSE <<>>

\* Math.min
Min(a, b) == IF a < b THEN a ELSE b

\* ---------------------------------------------------------------- requests
Types == {"email", "username", "phone", "name"}
NoType == "undefined"
NoState == "undefined"
States == {NoState, "CA"}

StringsUpTo(n) == UNION {[1..k -> Alphabet] : k \in 0..n}

\* Every body the route can be sent, up to the bounds.
Requests ==
  [query : StringsUpTo(MaxLen) \cup {Missing}, type : Types \cup {NoType},
   state : States, deepScan : BOOLEAN]

\* One well-formed body per query type.
SampleQuery(t) ==
  CASE t = "email" -> <<"a", "@", "a">>
    [] t = "username" -> <<"a">>
    [] t = "phone" -> <<"a", "a">>
    [] t = "name" -> <<"a", " ", "a">>

SearchRequests ==
  {[query |-> SampleQuery(t), type |-> t, state |-> NoState, deepScan |-> FALSE] : t \in Types}

\* --------------------------------------------------------------- providers
socialPlatformsButDevTo ==
  <<"Twitter/X", "Instagram", "TikTok", "Reddit", "Pinterest", "LinkedIn", "YouTube",
    "Twitch", "Medium">>

\* Lines 139-150: the platforms of searchUsername, in the order of the code.
socialPlatforms ==
  <<"Twitter/X", "Instagram", "TikTok", "Reddit", "Pinterest", "LinkedIn", "YouTube",
    "Twitch", "Medium", "DevTo">>

NumPlatforms == Len(socialPlatforms)
PlatformNames == {socialPlatforms[i] : i \in 1..NumPlatforms}

\* The sources the route reaches with fetch.
Probes == {"LeakCheck", "GitHub", "Gravatar", "Numverify", "CourtListener"} \cup PlatformNames

VARIABLES
  handler,          \* the route that serves: "direct", "process" (search), "photo"
  online,           \* whether the network answers at all
  req,              \* the parsed body {query, type, state, deepScan}
  pc,               \* where the handler is
  leakcheckKey,     \* searchEmail's leakcheckKey, "unread" before it is read
  numverifyKey,     \* searchPhone's numverifyKey, "unread" before it is read
  results,          \* the results array of the running search function
  platformResults,  \* the array Promise.all(platformChecks) fills
  probe,            \* per source: "idle", "pending" (fetch started), "settled"
  response,         \* the response sent, NoResponse before
  python,           \* the child process: "none", "running", "failed" (no start), "closed"
  stdout,           \* the chunks the close handler has in stdout
  stderr,           \* the chunks the close handler has in stderr
  promise,          \* the promise runPythonSearch (runPhotoSearch) returned
  timer,            \* the setTimeout of runPythonSearch: "none", "armed", "fired"
  kills,            \* the states of the child at each python.kill(), in call order
  exitCode,         \* the code of the close event, "none" before it
  settledBy,        \* the event whose handler settled the promise, "none" before
  tempFile,         \* the upload of the photo route: "none", "written", "unlinked",
                    \* "unlink failed"
  page,             \* the state of the search page: the values of its useState hooks
  inFlight          \* the requests the page has sent and not yet got the outcome of

\* The state of the search functions of the direct route.
direct == <<leakcheckKey, numverifyKey, results, platformResults, probe>>

\* The state of runPythonSearch.
child == <<python, stdout, stderr, promise, timer, kills, exitCode, settledBy>>

ui == <<page, inFlight>>
vars == <<handler, online, req, pc, response, direct, child, tempFile, ui>>

\* ------------------------------------------------------------ the network
\* What a fetch followed by response.json() can come to: the fetch rejects, or a
\* response with a status and a body (a parsed object, or text that is no JSON).
NetError == [kind |-> "error"]
HttpResponse(s, b) == [kind |-> "response", status |-> s, body |-> b]
BadJson == [syntaxError |-> TRUE]
NoBody == [empty |-> TRUE]
Statuses == {200, 204, 404}

\* response.ok
Ok(o) == o.kind = "response" /\ o.status \in 200..299

\* await response.json() throws
JsonThrows(o) == "syntaxError" \in DOMAIN o.body

Answers(bodies) ==
  IF online THEN {NetError} \cup {HttpResponse(s, b) : s \in Statuses, b \in bodies}
  ELSE {NetError}

LeakCheckBodies ==
  [found : {JsTrue, "3", JsUndefined}, result : {JsUndefined, JsNull, "empty", "nonempty"}]
    \cup {BadJson}
GitHubBodies == {[login |-> "a", html_url |-> "https://github.com/a"], BadJson}
NumverifyBodies == [valid : {JsTrue, JsFalse, JsUndefined}] \cup {BadJson}
CourtListenerBodies == {[count |-> 0], [count |-> 2], [detail |-> "a"], BadJson}

\* ------------------------------------------------------------ the results
NoUrl == "undefined"
SearchResult(s, f, d, u) == [source |-> s, found |-> f, data |-> d, url |-> u]

\* { error: String(e) }
ErrorData == [error |-> "String(e)"]

\* {}
EmptyData == <<>>

\* results.filter(r => r.found).length
foundCount(res) == Cardinality({i \in DOMAIN res : Truthy(res[i].found)})

riskScoreUncapped(res) == foundCount(res) * 15

\* Math.min(100, foundCount * 15)
riskScore(res) == Min(100, foundCount(res) * 15)

IsFound(r) == Truthy(r.found)

sources_of_all(res) == [i \in 1..Len(res) |-> res[i].source]

\* results.filter(r => r.found).map(r => r.source)
sources_with_data(res) ==
  LET f == SelectSeq(res, IsFound) IN [i \in 1..Len(f) |-> f[i].source]

\* The PersonProfile the handler answers with.
PersonProfile(r, res) ==
  [query |-> r.query, query_type |-> r.type, results |-> res, risk_score |-> riskScore(res),
   summary |-> [total_sources |-> Len(res), matches_found |-> foundCount(res),
                sources_with_data |-> sources_with_data(res)]]

NoResponse == [status |-> 0]
\* A message is the sequence of the pieces it is concatenated from.
ErrorResponse(s, msg) == [status |-> s, error |-> msg]
ProfileResponse(r, res) == [status |-> 200, profile |-> PersonProfile(r, res)]

\* ------------------------------------------------------------- validation
ValidationUnlessDeepScan(query, type) ==
  IF req.deepScan THEN "ok"
  ELSE IF Falsy(query) \/ type = NoType THEN "Query and type are required"
  ELSE IF type = "email" /\ ~Includes(query, "@") THEN "Invalid email format"
  ELSE IF type = "name" /\ ~Includes(query, " ") THEN "Please provide first and last name"
  ELSE "ok"

ValidationWithoutEmailCheck(query, type) ==
  IF Falsy(query) \/ type = NoType THEN "Query and type are required"
  ELSE IF type = "name" /\ ~Includes(query, " ") THEN "Please provide first and last name"
  ELSE "ok"

ValidationWithoutEmptyCheck(query, type) ==
  IF type = "email" /\ ~Includes(query, "@") THEN "Invalid email format"
  ELSE IF type = "name" /\ ~Includes(query, " ") THEN "Please provide first and last name"
  ELSE "ok"

\* The checks of POST before it searches: the message of the 400, or "ok".
Validation(query, type) ==
  IF Falsy(query) \/ type = NoType THEN "Query and type are required"
  ELSE IF type = "email" /\ ~Includes(query, "@") THEN "Invalid email format"
  ELSE IF type = "name" /\ ~Includes(query, " ") THEN "Please provide first and last name"
  ELSE "ok"

\* ---------------------------------------------------------------- promises
NoPromise == [state |-> "none"]
PendingPromise == [state |-> "pending"]
Fulfilled(v) == [state |-> "fulfilled", value |-> v]
Rejected(msg) == [state |-> "rejected", reason |-> msg]

SettleAgain(p, outcome) == outcome

\* resolve(v) or reject(e) on a promise: only the first call settles it.
Settle(p, outcome) == IF p = PendingPromise THEN outcome ELSE p

\* The event that settled the promise, after the handler of event ran.
SettledBy(p, by, event) == IF p = PendingPromise THEN event ELSE by

\* ---------------------------------------------------- the search page, state
\* result: null, the JSON of a 200, the JSON of a 400 or 500 (an error and no
\* query_type), the object set by the catch of handleSearch.
NoResult == [kind |-> "null", query_type |-> JsUndefined]
ProfileResult(type) == [kind |-> "profile", query_type |-> type]
ErrorResult == [kind |-> "error response", query_type |-> JsUndefined]
FailedResult(type) == [kind |-> "search failed", query_type |-> type]

\* Lines 142-149 of the page: the initial values of the useState hooks.
InitialPage ==
  [searchType |-> "email", query |-> "", firstName |-> "", lastName |-> "",
   loading |-> FALSE, result |-> NoResult]

\* --------------------------------------------------------- initial states
IdleProbes == [p \in Probes |-> "idle"]

InitRoute(handlers, reqs, nets) ==
  /\ handler \in handlers
  /\ online \in nets
  /\ req \in reqs
  /\ pc = "start"
  /\ leakcheckKey = "unread"
  /\ numverifyKey = "unread"
  /\ results = <<>>
  /\ platformResults = <<>>
  /\ probe = IdleProbes
  /\ response = NoResponse
  /\ python = "none"
  /\ stdout = <<>>
  /\ stderr = <<>>
  /\ promise = NoPromise
  /\ timer = "none"
  /\ kills = <<>>
  /\ exitCode = "none"
  /\ settledBy = "none"
  /\ tempFile = "none"
  /\ page = InitialPage
  /\ inFlight = <<>>

\* A request to the search route, in either implementation.
InitWith(reqs, nets) == InitRoute({"direct", "process"}, reqs, nets)

\* The searches: one well-formed request per type, on a network that answers.
Init == InitWith(SearchRequests, {TRUE})

\* The validation: every body up to the bounds, on a network that is down.
InitValidate == InitWith(Requests, {FALSE})

\* -------------------------------------------------- POST, the direct route
\* Lines 310-333: the 400s, or on to the search function of the type.
POSTValidate ==
  /\ handler = "direct"
  /\ pc = "start"
  /\ LET msg == Validation(req.query, req.type) IN
       IF msg = "ok" THEN /\ pc' = "search"
                          /\ response' = response
       ELSE /\ pc' = "done"
            /\ response' = ErrorResponse(400, <<msg>>)
  /\ UNCHANGED <<handler, online, req, leakcheckKey, numverifyKey, results, platformResults,
                 probe, child, tempFile, ui>>

\* return NextResponse.json(profile), after the search function returned res.
Finish(res) ==
  /\ results' = res
  /\ response' = ProfileResponse(req, res)
  /\ pc' = "done"

Started(p) == [probe EXCEPT ![p] = "pending"]
Settled(p) == [probe EXCEPT ![p] = "settled"]
SettledThenStarted(p, q) == [probe EXCEPT ![p] = "settled", ![q] = "pending"]

\* ------------------------------------------------------------ searchEmail
\* found: data.found === true || (data.result && data.result.length > 0)
LeakCheckFound(data) ==
  IF data.found = JsTrue THEN JsTrue ELSE JsAnd(data.result, data.result = "nonempty")

\* Lines 34-49: the entry pushed after the LeakCheck fetch, in the try or in the catch.
LeakCheckResult(o) ==
  IF o.kind = "error" \/ JsonThrows(o)
  THEN SearchResult("LeakCheck", JsFalse, ErrorData, NoUrl)
  ELSE SearchResult("LeakCheck", LeakCheckFound(o.body), o.body, "https://leakcheck.io")

\* Lines 56-79: what the GitHub check of searchEmail pushes.
EmailGitHubResult(o) ==
  IF Ok(o) /\ ~JsonThrows(o)
  THEN <<SearchResult("GitHub", JsTrue, [login |-> o.body.login], o.body.html_url)>>
  ELSE <<>>

\* Lines 82-96: what the Gravatar check pushes.
GravatarResult(o) ==
  IF Ok(o)
  THEN <<SearchResult("Gravatar", JsTrue, [avatar_url |-> "https://www.gravatar.com/avatar/hash"],
                      "https://gravatar.com/hash")>>
  ELSE <<>>

ConfiguredAlways(key) == TRUE

\* Lines 31 and 214: if (leakcheckKey), if (numverifyKey): the variable of the
\* environment is set (to a non-empty string).
Configured(key) == key = "set"

\* Lines 28-38 and 53-59: read the key; await the LeakCheck fetch when there is a key,
\* the GitHub fetch when there is none.
searchEmailStart ==
  /\ handler = "direct"
  /\ pc = "search"
  /\ req.type = "email"
  /\ \E key \in {"set", "unset"} :
       /\ leakcheckKey' = key
       /\ IF Configured(key) THEN /\ probe' = Started("LeakCheck")
                              /\ pc' = "email:LeakCheck"
          ELSE /\ probe' = Started("GitHub")
               /\ pc' = "email:GitHub"
  /\ results' = <<>>
  /\ UNCHANGED <<handler, online, req, numverifyKey, platformResults, response, child, tempFile, ui>>

\* Lines 39-59: the LeakCheck fetch settles, its entry is pushed, the GitHub fetch starts.
searchEmailLeakCheck ==
  /\ pc = "email:LeakCheck"
  /\ \E o \in Answers(LeakCheckBodies) : results' = Append(results, LeakCheckResult(o))
  /\ probe' = SettledThenStarted("LeakCheck", "GitHub")
  /\ pc' = "email:GitHub"
  /\ UNCHANGED <<handler, online, req, leakcheckKey, numverifyKey, platformResults, response, child, tempFile, ui>>

\* Lines 60-86: the GitHub fetch settles, the Gravatar fetch starts.
searchEmailGitHub ==
  /\ pc = "email:GitHub"
  /\ \E o \in Answers(GitHubBodies) : results' = results \o EmailGitHubResult(o)
  /\ probe' = SettledThenStarted("GitHub", "Gravatar")
  /\ pc' = "email:Gravatar"
  /\ UNCHANGED <<handler, online, req, leakcheckKey, numverifyKey, platformResults, response, child, tempFile, ui>>

\* Lines 87-98 and 352-368: the Gravatar fetch settles, searchEmail returns, POST answers.
searchEmailGravatar ==
  /\ pc = "email:Gravatar"
  /\ \E o \in Answers({NoBody}) : Finish(results \o GravatarResult(o))
  /\ probe' = Settled("Gravatar")
  /\ UNCHANGED <<handler, online, req, leakcheckKey, numverifyKey, platformResults, child, tempFile, ui>>

\* --------------------------------------------------------- searchUsername
\* Lines 107-136: the entry searchUsername pushes for GitHub.
UsernameGitHubResult(o) ==
  IF o.kind = "error" THEN SearchResult("GitHub", JsFalse, ErrorData, NoUrl)
  ELSE IF ~Ok(o) THEN SearchResult("GitHub", JsFalse, EmptyData, NoUrl)
  ELSE IF JsonThrows(o) THEN SearchResult("GitHub", JsFalse, ErrorData, NoUrl)
  ELSE SearchResult("GitHub", JsTrue, [login |-> o.body.login], o.body.html_url)

\* platform.url, named by the platform it belongs to.
PlatformUrl(name) == name

PlatformResultAsGitHub(name, o) == SearchResult("GitHub", JsFalse, EmptyData, NoUrl)

PlatformResultOnOk(name, o) ==
  LET found == Ok(o) IN
    IF o.kind = "error" THEN SearchResult(name, JsFalse, EmptyData, NoUrl)
    ELSE SearchResult(name, JsBool(found),
                      IF found THEN [profile_url |-> PlatformUrl(name)] ELSE EmptyData,
                      IF found THEN PlatformUrl(name) ELSE NoUrl)

\* Lines 153-171: the value one platform check resolves with.
PlatformResult(name, o) ==
  LET found == Ok(o) /\ o.status = 200 IN
    IF o.kind = "error" THEN SearchResult(name, JsFalse, EmptyData, NoUrl)
    ELSE SearchResult(name, JsBool(found),
                      IF found THEN [profile_url |-> PlatformUrl(name)] ELSE EmptyData,
                      IF found THEN PlatformUrl(name) ELSE NoUrl)

\* A promise of platformChecks that has not resolved.
Pending == [pending |-> TRUE]

StartOnlyFirstPlatformCheck(pr) == [pr EXCEPT ![socialPlatforms[1]] = "pending"]

\* socialPlatforms.map(async ...): every check runs up to its fetch, so all fetches start.
StartPlatformChecks(pr) ==
  [p \in Probes |-> IF p \in PlatformNames THEN "pending" ELSE pr[p]]

ResolveInCompletionOrder(arr, i, v) ==
  LET k == CHOOSE j \in DOMAIN arr : arr[j] = Pending /\ \A l \in 1..(j - 1) : arr[l] # Pending
  IN [arr EXCEPT ![k] = v]

\* Promise.all: the value of the i-th promise is the i-th element of the array.
PromiseAllResolve(arr, i, v) == [arr EXCEPT ![i] = v]

\* Lines 103-110: await the GitHub fetch.
searchUsernameStart ==
  /\ handler = "direct"
  /\ pc = "search"
  /\ req.type = "username"
  /\ results' = <<>>
  /\ probe' = Started("GitHub")
  /\ pc' = "username:GitHub"
  /\ UNCHANGED <<handler, online, req, leakcheckKey, numverifyKey, platformResults, response, child, tempFile, ui>>

\* Lines 111-173: the GitHub fetch settles, its entry is pushed, the platform checks
\* are mapped and Promise.all awaited.
searchUsernameGitHub ==
  /\ pc = "username:GitHub"
  /\ \E o \in Answers(GitHubBodies) : results' = Append(results, UsernameGitHubResult(o))
  /\ probe' = StartPlatformChecks(Settled("GitHub"))
  /\ platformResults' = [i \in 1..NumPlatforms |-> Pending]
  /\ pc' = "username:platforms"
  /\ UNCHANGED <<handler, online, req, leakcheckKey, numverifyKey, response, child, tempFile, ui>>

\* Lines 154-170: the fetch of platform i settles and its check resolves.
platformCheck(i) ==
  /\ pc = "username:platforms"
  /\ probe[socialPlatforms[i]] = "pending"
  /\ \E o \in Answers({NoBody}) :
       platformResults' = PromiseAllResolve(platformResults, i, PlatformResult(socialPlatforms[i], o))
  /\ probe' = Settled(socialPlatforms[i])
  /\ UNCHANGED <<handler, online, req, pc, leakcheckKey, numverifyKey, results, response, child, tempFile, ui>>

\* Lines 173-176 and 352-368: every check resolved, Promise.all resolves, the entries
\* are pushed, searchUsername returns, POST answers.
searchUsernameJoin ==
  /\ pc = "username:platforms"
  /\ \A p \in PlatformNames : probe[p] = "settled"
  /\ Finish(results \o platformResults)
  /\ UNCHANGED <<handler, online, req, leakcheckKey, numverifyKey, platformResults, probe, child, tempFile, ui>>

\* ------------------------------------------------------------ searchPhone
IsDigitOrPlus(c) == c \in {"0", "1", "2", "3", "4", "5", "6", "7", "8", "9", "+"}

\* phone.replace(/[^\d+]/g, '')
Cleaned(phone) == SelectSeq(phone, IsDigitOrPlus)

PhoneParserResultIfDigits(phone) ==
  SearchResult("Phone Parser", JsBool(Cleaned(phone) # <<>>),
               [original |-> phone, cleaned |-> Cleaned(phone)], NoUrl)

\* Lines 201-212: the Phone Parser entry.
PhoneParserResult(phone) ==
  SearchResult("Phone Parser", JsTrue, [original |-> phone, cleaned |-> Cleaned(phone)], NoUrl)

\* A link of a Manual Lookups entry: its name and the part of its URL that varies.
Link(n, u) == [name |-> n, url |-> u]

NoLinks(q) == <<>>

\* Lines 242-248: the links of searchPhone.
PhoneLinks(phone) ==
  <<Link("TrueCaller", <<>>), Link("WhitePages", <<Cleaned(phone)>>),
    Link("Spokeo", <<Cleaned(phone)>>), Link("NumLookup", <<>>), Link("CallerID Test", <<>>)>>

\* Lines 238-251 and 287-302: the Manual Lookups entry.
ManualLookups(links) == SearchResult("Manual Lookups", JsTrue, [links |-> links], NoUrl)

\* Lines 217-234: what the Numverify check pushes.
NumverifyResult(o) ==
  IF o.kind = "error" \/ JsonThrows(o) THEN <<>>
  ELSE <<SearchResult("Numverify", JsBool(o.body.valid = JsTrue), o.body, NoUrl)>>

\* Lines 181-253: parse, read the key; without a key push the links and return, with one
\* await the Numverify fetch.
searchPhoneStart ==
  /\ handler = "direct"
  /\ pc = "search"
  /\ req.type = "phone"
  /\ \E key \in {"set", "unset"} :
       /\ numverifyKey' = key
       /\ IF Configured(key)
          THEN /\ results' = <<PhoneParserResult(req.query)>>
               /\ probe' = Started("Numverify")
               /\ pc' = "phone:Numverify"
               /\ response' = response
          ELSE /\ Finish(<<PhoneParserResult(req.query), ManualLookups(PhoneLinks(req.query))>>)
               /\ probe' = probe
  /\ UNCHANGED <<handler, online, req, leakcheckKey, platformResults, child, tempFile, ui>>

\* Lines 221-253 and 352-368: the Numverify fetch settles, the links are pushed,
\* searchPhone returns, POST answers.
searchPhoneNumverify ==
  /\ pc = "phone:Numverify"
  /\ \E o \in Answers(NumverifyBodies) :
       Finish((results \o NumverifyResult(o)) \o <<ManualLookups(PhoneLinks(req.query))>>)
  /\ probe' = Settled("Numverify")
  /\ UNCHANGED <<handler, online, req, leakcheckKey, numverifyKey, platformResults, child, tempFile, ui>>

\* ------------------------------------------------------------- searchName
\* const [firstName, ...lastParts] = name.split(' ')
firstName(name) == SplitHead(name, " ")

\* lastParts.join(' ')
lastName(name) == SplitRest(name, " ")

\* state ? `&state=${state}` : ''
stateParam(state) == IF state = NoState THEN <<>> ELSE <<state>>

\* Lines 291-299: the links of searchName.
NameLinks(name, state) ==
  <<Link("LinkedIn", <<name>>), Link("Pipl", <<name>> \o stateParam(state)),
    Link("WhitePages", <<firstName(name), lastName(name)>>),
    Link("TruePeopleSearch", <<name>>),
    Link("FastPeopleSearch", <<firstName(name), lastName(name)>>),
    Link("That's Them", <<firstName(name), lastName(name)>>),
    Link("Radaris", <<firstName(name), lastName(name)>>)>>

\* data.count > 0
CountPositive(data) == "count" \in DOMAIN data /\ data.count > 0

\* Lines 264-283: what the CourtListener check pushes.
CourtListenerResult(o) ==
  IF Ok(o) /\ ~JsonThrows(o)
  THEN <<SearchResult("CourtListener", JsBool(CountPositive(o.body)), o.body,
                      "https://www.courtlistener.com/?q=query&type=p")>>
  ELSE <<>>

\* Lines 258-269: await the CourtListener fetch.
searchNameStart ==
  /\ handler = "direct"
  /\ pc = "search"
  /\ req.type = "name"
  /\ results' = <<>>
  /\ probe' = Started("CourtListener")
  /\ pc' = "name:CourtListener"
  /\ UNCHANGED <<handler, online, req, leakcheckKey, numverifyKey, platformResults, response, child, tempFile, ui>>

\* Lines 270-304 and 352-368: the CourtListener fetch settles, the links are pushed,
\* searchName returns, POST answers.
searchNameCourtListener ==
  /\ pc = "name:CourtListener"
  /\ \E o \in Answers(CourtListenerBodies) :
       Finish((results \o CourtListenerResult(o))
                \o <<ManualLookups(NameLinks(req.query, req.state))>>)
  /\ probe' = Settled("CourtListener")
  /\ UNCHANGED <<handler, online, req, leakcheckKey, numverifyKey, platformResults, child, tempFile, ui>>

\* ------------------------------------------- POST, the process-backed route
\* What a data event of stdout carries: half of a JSON object.
StdoutChunks == {"{", "}"}
StderrChunks == {"e"}

\* JSON.parse(stdout) returns
Parseable(out) == out = <<"{", "}">>

\* JSON.parse(stdout): the object the text denotes.
Parsed(out) == [parsed |-> out]

\* Lines 444-456: what the close handler does to the promise.
runPythonSearchOnClose(code, out, err) ==
  IF code # "0" THEN Rejected(<<"Python script exited with code ", code, ": ">> \o err)
  ELSE IF Parseable(out) THEN Fulfilled(Parsed(out))
  ELSE Rejected(<<"Failed to parse Python output: ">> \o out)

\* The exit codes a close event can carry: the script's own, null after a signal,
\* -2 when the process never started.
ExitCodes ==
  IF python = "failed" THEN {"-2"}
  ELSE {"0", "1"} \cup (IF \E i \in DOMAIN kills : kills[i] = "running" THEN {"null"} ELSE {})

\* Lines 472-495: the 400s, or on to runPythonSearch.
POSTProcessValidate ==
  /\ handler = "process"
  /\ pc = "start"
  /\ LET msg == Validation(req.query, req.type) IN
       IF msg = "ok" THEN /\ pc' = "spawn"
                          /\ response' = response
       ELSE /\ pc' = "done"
            /\ response' = ErrorResponse(400, <<msg>>)
  /\ UNCHANGED <<handler, online, req, direct, child, tempFile, ui>>

\* Lines 412-466, 498: spawn, register the handlers, arm the timer, await the promise.
runPythonSearch ==
  /\ handler = "process"
  /\ pc = "spawn"
  /\ python' = "running"
  /\ promise' = PendingPromise
  /\ timer' = "armed"
  /\ pc' = "process:await"
  /\ UNCHANGED <<handler, online, req, response, direct, stdout, stderr, kills, exitCode,
                 settledBy, tempFile, ui>>

\* Lines 436-438: python.stdout.on('data').
stdoutData ==
  /\ handler = "process"
  /\ python = "running"
  /\ Len(stdout) < MaxChunks
  /\ \E c \in StdoutChunks : stdout' = Append(stdout, c)
  /\ UNCHANGED <<handler, online, req, pc, response, direct, python, stderr, promise, timer,
                 kills, exitCode, settledBy, tempFile, ui>>

\* Lines 440-442: python.stderr.on('data').
stderrData ==
  /\ handler = "process"
  /\ python = "running"
  /\ Len(stderr) < MaxChunks
  /\ \E c \in StderrChunks : stderr' = Append(stderr, c)
  /\ UNCHANGED <<handler, online, req, pc, response, direct, python, stdout, promise, timer,
                 kills, exitCode, settledBy, tempFile, ui>>

\* Lines 444-456: python.on('close').
pythonClose ==
  /\ handler = "process"
  /\ python \in {"running", "failed"}
  /\ \E code \in ExitCodes :
       /\ promise' = Settle(promise, runPythonSearchOnClose(code, stdout, stderr))
       /\ exitCode' = code
  /\ settledBy' = SettledBy(promise, settledBy, "close")
  /\ python' = "closed"
  /\ UNCHANGED <<handler, online, req, pc, response, direct, stdout, stderr, timer, kills,
                 tempFile, ui>>

\* Lines 458-460: python.on('error'): the process could not be started.
pythonError ==
  /\ handler = "process"
  /\ python = "running"
  /\ stdout = <<>>
  /\ stderr = <<>>
  /\ kills = <<>>
  /\ python' = "failed"
  /\ promise' = Settle(promise, Rejected(<<"spawn python ENOENT">>))
  /\ settledBy' = SettledBy(promise, settledBy, "error")
  /\ UNCHANGED <<handler, online, req, pc, response, direct, stdout, stderr, timer, kills,
                 exitCode, tempFile, ui>>

\* Lines 463-466: the timer fires: python.kill(), reject.
pythonTimeout ==
  /\ handler = "process"
  /\ timer = "armed"
  /\ timer' = "fired"
  /\ kills' = Append(kills, python)
  /\ promise' = Settle(promise, Rejected(<<"Search timed out">>))
  /\ settledBy' = SettledBy(promise, settledBy, "timeout")
  /\ UNCHANGED <<handler, online, req, pc, response, direct, python, stdout, stderr, exitCode,
                 tempFile, ui>>

\* Lines 498-506: the promise settled: the result as it is, or the 500 of the catch.
POSTProcessRespond ==
  /\ handler = "process"
  /\ pc = "process:await"
  /\ promise.state \in {"fulfilled", "rejected"}
  /\ response' = IF promise.state = "fulfilled" THEN [status |-> 200, profile |-> promise.value]
                 ELSE ErrorResponse(500, promise.reason)
  /\ pc' = "done"
  /\ UNCHANGED <<handler, online, req, direct, child, tempFile, ui>>

\* ------------------------------------------------- POST, the photo route
\* What formData.get('photo') returns: a File, null when the field is absent, a string
\* when the field is a text field.
Uploads == {"file", JsNull, "text"}
PhotoRequests == [photo : Uploads]

\* Lines 134-185: getManualSearchLinks(), the names of the links.
getManualSearchLinks ==
  <<"PimEyes", "FaceCheck.ID", "Google Images", "Yandex Images", "TinEye", "Search4Faces",
    "SocialCatfish", "Lenso.ai">>

\* Lines 83-89: the object resolved when the script failed and printed no JSON.
PhotoFailed(code) ==
  [error |-> <<"Photo analysis failed (code ", code, ")">>,
   face_analysis |-> JsNull,
   reverse_search_links |-> getManualSearchLinks,
   risk_score |-> 0,
   employment_flags |-> <<>>]

\* Lines 99-105, 111-117, 123-129: the object resolved in place of an analysis.
PhotoFallback(why, note) ==
  [face_analysis |-> why,
   reverse_search_links |-> getManualSearchLinks,
   risk_score |-> 0,
   employment_flags |-> <<>>,
   note |-> note]

\* Lines 74-106: what the close handler resolves the promise with.
runPhotoSearchOnClose(code, out) ==
  IF Parseable(out) THEN Fulfilled(Parsed(out))
  ELSE IF code # "0" THEN Fulfilled(PhotoFailed(code))
  ELSE Fulfilled(PhotoFallback("Analysis unavailable",
                               "DeepFace analysis unavailable - use manual search links below"))

\* String(error) of what the handler can throw before the script runs.
TypeErrorText == "TypeError: file.arrayBuffer is not a function"
WriteErrors == {"Error: ENOSPC: no space left on device, write"}

\* Lines 45-50: the answer of the catch.
PhotoErrorResponse(e) == [status |-> 500, error |-> <<"Photo search failed">>, details |-> e]

\* Lines 10-22: the upload is read from the form.
POSTPhotoValidate ==
  /\ handler = "photo"
  /\ pc = "start"
  /\ CASE req.photo = JsNull ->
            /\ response' = ErrorResponse(400, <<"No photo provided">>)
            /\ pc' = "done"
       [] req.photo = "text" ->
            /\ response' = PhotoErrorResponse(TypeErrorText)
            /\ pc' = "done"
       [] OTHER ->
            /\ response' = response
            /\ pc' = "photo:write"
  /\ UNCHANGED <<handler, online, req, direct, child, tempFile, ui>>

\* Lines 24-32: the upload is written to the temporary directory.
POSTPhotoWrite ==
  /\ handler = "photo"
  /\ pc = "photo:write"
  /\ \E outcome \in {"ok"} \cup WriteErrors :
       IF outcome = "ok"
       THEN /\ tempFile' = "written"
            /\ pc' = "photo:spawn"
            /\ response' = response
       ELSE /\ tempFile' = tempFile
            /\ pc' = "done"
            /\ response' = PhotoErrorResponse(outcome)
  /\ UNCHANGED <<handler, online, req, direct, child, ui>>

\* Lines 54-61, 121, 35: spawn, register the handlers, arm the timer, await the promise.
runPhotoSearch ==
  /\ handler = "photo"
  /\ pc = "photo:spawn"
  /\ python' = "running"
  /\ promise' = PendingPromise
  /\ timer' = "armed"
  /\ pc' = "photo:await"
  /\ UNCHANGED <<handler, online, req, response, direct, stdout, stderr, kills, exitCode,
                 settledBy, tempFile, ui>>

\* Lines 66-68: pythonProcess.stdout.on('data').
photoStdoutData ==
  /\ handler = "photo"
  /\ python = "running"
  /\ Len(stdout) < MaxChunks
  /\ \E c \in StdoutChunks : stdout' = Append(stdout, c)
  /\ UNCHANGED <<handler, online, req, pc, response, direct, python, stderr, promise, timer,
                 kills, exitCode, settledBy, tempFile, ui>>

\* Lines 70-72: pythonProcess.stderr.on('data').
photoStderrData ==
  /\ handler = "photo"
  /\ python = "running"
  /\ Len(stderr) < MaxChunks
  /\ \E c \in StderrChunks : stderr' = Append(stderr, c)
  /\ UNCHANGED <<handler, online, req, pc, response, direct, python, stdout, promise, timer,
                 kills, exitCode, settledBy, tempFile, ui>>

\* Lines 74-106: pythonProcess.on('close').
photoClose ==
  /\ handler = "photo"
  /\ python \in {"running", "failed"}
  /\ \E code \in ExitCodes :
       /\ promise' = Settle(promise, runPhotoSearchOnClose(code, stdout))
       /\ exitCode' = code
  /\ settledBy' = SettledBy(promise, settledBy, "close")
  /\ python' = "closed"
  /\ UNCHANGED <<handler, online, req, pc, response, direct, stdout, stderr, timer, kills,
                 tempFile, ui>>

\* Lines 108-118: pythonProcess.on('error'): the process could not be started.
photoError ==
  /\ handler = "photo"
  /\ python = "running"
  /\ stdout = <<>>
  /\ stderr = <<>>
  /\ kills = <<>>
  /\ python' = "failed"
  /\ promise' = Settle(promise, Fulfilled(PhotoFallback("Python not available",
                  "Automated analysis unavailable - use manual search links below")))
  /\ settledBy' = SettledBy(promise, settledBy, "error")
  /\ UNCHANGED <<handler, online, req, pc, response, direct, stdout, stderr, timer, kills,
                 exitCode, tempFile, ui>>

\* Lines 121-130: the timer fires: pythonProcess.kill(), resolve with the fallback.
photoTimeout ==
  /\ handler = "photo"
  /\ timer = "armed"
  /\ timer' = "fired"
  /\ kills' = Append(kills, python)
  /\ promise' = Settle(promise, Fulfilled(PhotoFallback("Analysis timed out",
                  "Analysis timed out - use manual search links below")))
  /\ settledBy' = SettledBy(promise, settledBy, "timeout")
  /\ UNCHANGED <<handler, online, req, pc, response, direct, python, stdout, stderr, exitCode,
                 tempFile, ui>>

UnlinkSkipped(file, ok) == file

\* Lines 38-42: await unlink(tempFilePath) in a try whose catch is empty: the file is
\* gone, or the attempt failed and the file stays.
Unlink(file, ok) == IF ok THEN "unlinked" ELSE "unlink failed"

\* Lines 35-44: the promise settled: the upload is unlinked (a failure of unlink is
\* ignored) and the result answered as it is.
POSTPhotoRespond ==
  /\ handler = "photo"
  /\ pc = "photo:await"
  /\ promise.state = "fulfilled"
  /\ \E ok \in BOOLEAN : tempFile' = Unlink(tempFile, ok)
  /\ response' = [status |-> 200, result |-> promise.value]
  /\ pc' = "done"
  /\ UNCHANGED <<handler, online, req, direct, child, ui>>

\* ------------------------------------------- one platform check, by itself
\* The callback of socialPlatforms.map (lines 153-171) applied to one platform, for each
\* answer its fetch can get: the platform and the answer are the input.
PlatformCheckInputs ==
  [platform : 1..NumPlatforms,
   answer : {NetError} \cup {HttpResponse(s, NoBody) : s \in Statuses}]

\* Lines 155-158: the HEAD request is sent.
platformCheckFetch ==
  /\ handler = "platformCheck"
  /\ pc = "start"
  /\ probe' = Started(socialPlatforms[req.platform])
  /\ pc' = "platform:fetch"
  /\ UNCHANGED <<handler, online, req, leakcheckKey, numverifyKey, results, platformResults,
                 response, child, tempFile, ui>>

\* Lines 159-170: the fetch settles and the callback returns its entry.
platformCheckReturn ==
  /\ handler = "platformCheck"
  /\ pc = "platform:fetch"
  /\ results' = <<PlatformResult(socialPlatforms[req.platform], req.answer)>>
  /\ probe' = Settled(socialPlatforms[req.platform])
  /\ pc' = "done"
  /\ UNCHANGED <<handler, online, req, leakcheckKey, numverifyKey, platformResults, response,
                 child, tempFile, ui>>

\* ------------------------------------------- POST, the breach-check route
\* Every body the breach-check route can be sent, up to the bounds.
CheckRequests == [email : StringsUpTo(MaxLen) \cup {Missing}]

CheckGuardKeyFirst(email, key) ==
  IF ~Configured(key) THEN "API key not configured"
  ELSE IF Falsy(email) \/ ~Includes(email, "@") THEN "Valid email required"
  ELSE "ok"

\* Lines 9-21: the checks of the route before it asks LeakCheck: the message of the
\* error, or "ok".
CheckGuard(email, key) ==
  IF Falsy(email) \/ ~Includes(email, "@") THEN "Valid email required"
  ELSE IF ~Configured(key) THEN "API key not configured"
  ELSE "ok"

\* Lines 7-32: the body is read and checked; the LeakCheck fetch is sent.
POSTCheck ==
  /\ handler = "check"
  /\ pc = "start"
  /\ LET msg == CheckGuard(req.email, leakcheckKey) IN
       CASE msg = "Valid email required" ->
              /\ response' = ErrorResponse(400, <<msg>>)
              /\ pc' = "done"
              /\ probe' = probe
         [] msg = "API key not configured" ->
              /\ response' = ErrorResponse(500, <<msg>>)
              /\ pc' = "done"
              /\ probe' = probe
         [] OTHER ->
              /\ response' = response
              /\ pc' = "check:LeakCheck"
              /\ probe' = Started("LeakCheck")
  /\ UNCHANGED <<handler, online, req, leakcheckKey, numverifyKey, results, platformResults,
                 child, tempFile, ui>>

\* Lines 34-41: the fetch settles: the answer of LeakCheck is passed on as it is, or the
\* 500 of the catch.
POSTCheckRespond ==
  /\ handler = "check"
  /\ pc = "check:LeakCheck"
  /\ \E o \in Answers(LeakCheckBodies) :
       response' = IF o.kind = "error" \/ JsonThrows(o)
                   THEN ErrorResponse(500, <<"Failed to check email">>)
                   ELSE [status |-> 200, data |-> o.body]
  /\ probe' = Settled("LeakCheck")
  /\ pc' = "done"
  /\ UNCHANGED <<handler, online, req, leakcheckKey, numverifyKey, results, platformResults,
                 child, tempFile, ui>>

\* ------------------------------------------------------- the search page
\* What can be typed into a field: nothing, or something.
Typed == {"", "q"}

SubmitDisabledIgnoringLoading(p) ==
  IF p.searchType = "name" THEN p.firstName = "" \/ p.lastName = "" ELSE p.query = ""

\* Line 293: disabled={loading || (searchType === 'name' ? !firstName || !lastName : !query)}
SubmitDisabled(p) ==
  \/ p.loading
  \/ IF p.searchType = "name" THEN p.firstName = "" \/ p.lastName = "" ELSE p.query = ""

\* Lines 154-160: the query handleSearch sends.
searchQuery(p) == IF p.searchType = "name" THEN <<p.firstName, " ", p.lastName>> ELSE <<p.query>>

\* arr without its i-th element.
Without(arr, i) == SubSeq(arr, 1, i - 1) \o SubSeq(arr, i + 1, Len(arr))

\* Lines 219-223: a tab is clicked; the tabs are never disabled.
onClickTab ==
  /\ handler = "page"
  /\ \E type \in Types :
       page' = [page EXCEPT !.searchType = type, !.result = NoResult, !.query = ""]
  /\ UNCHANGED <<handler, online, req, pc, response, direct, child, tempFile, inFlight>>

\* Lines 268-276: the query field, shown on every tab but name, disabled while loading.
onChangeQuery ==
  /\ handler = "page"
  /\ page.searchType # "name"
  /\ ~page.loading
  /\ \E v \in Typed : page' = [page EXCEPT !.query = v]
  /\ UNCHANGED <<handler, online, req, pc, response, direct, child, tempFile, inFlight>>

\* Lines 241-256: the name fields, shown on the name tab, disabled while loading.
onChangeName ==
  /\ handler = "page"
  /\ page.searchType = "name"
  /\ ~page.loading
  /\ \E f, l \in Typed : page' = [page EXCEPT !.firstName = f, !.lastName = l]
  /\ UNCHANGED <<handler, online, req, pc, response, direct, child, tempFile, inFlight>>

\* Lines 151-175: the form is submitted, which takes an enabled submit button:
\* loading is set, the result cleared, the request sent.
handleSearch ==
  /\ handler = "page"
  /\ ~SubmitDisabled(page)
  /\ Len(inFlight) < MaxInFlight
  /\ page' = [page EXCEPT !.loading = TRUE, !.result = NoResult]
  /\ inFlight' = Append(inFlight, [query |-> searchQuery(page), type |-> page.searchType])
  /\ UNCHANGED <<handler, online, req, pc, response, direct, child, tempFile>>

\* Lines 177-190: the fetch of a request settles: the JSON of the answer is the result
\* (a profile, or the error body of a 400 or a 500), or the catch sets its own; the
\* finally clears loading.
handleSearchSettled ==
  /\ handler = "page"
  /\ \E i \in DOMAIN inFlight :
       /\ \E r \in {ProfileResult(inFlight[i].type), ErrorResult, FailedResult(inFlight[i].type)} :
            page' = [page EXCEPT !.result = r, !.loading = FALSE]
       /\ inFlight' = Without(inFlight, i)
  /\ UNCHANGED <<handler, online, req, pc, response, direct, child, tempFile>>

\* ------------------------------------------------------- the specification
Next ==
  \/ POSTValidate
  \/ searchEmailStart
  \/ searchEmailLeakCheck
  \/ searchEmailGitHub
  \/ searchEmailGravatar
  \/ searchUsernameStart
  \/ searchUsernameGitHub
  \/ \E i \in 1..NumPlatforms : platformCheck(i)
  \/ searchUsernameJoin
  \/ searchPhoneStart
  \/ searchPhoneNumverify
  \/ searchNameStart
  \/ searchNameCourtListener
  \/ POSTProcessValidate
  \/ runPythonSearch
  \/ stdoutData
  \/ stderrData
  \/ pythonClose
  \/ pythonError
  \/ pythonTimeout
  \/ POSTProcessRespond

Spec == Init /\ [][Next]_vars

SpecValidate == InitValidate /\ [][Next]_vars

\* The scheduling the runtime guarantees: the handler's own steps run and an armed timer
\* fires.  Nothing makes a fetch settle, nor the child write or exit.
Fairness ==
  /\ WF_vars(POSTValidate)
  /\ WF_vars(searchEmailStart)
  /\ WF_vars(searchUsernameStart)
  /\ WF_vars(searchUsernameJoin)
  /\ WF_vars(searchPhoneStart)
  /\ WF_vars(searchNameStart)
  /\ WF_vars(POSTProcessValidate)
  /\ WF_vars(runPythonSearch)
  /\ WF_vars(pythonTimeout)
  /\ WF_vars(POSTProcessRespond)

FairSpec == Init /\ [][Next]_vars /\ Fairness

\* The routes that run a script as a child process: the process-backed search route and
\* the photo route, one request to either.
InitChild ==
  \/ InitRoute({"process"}, SearchRequests, {TRUE})
  \/ InitRoute({"photo"}, PhotoRequests, {TRUE})

NextChild ==
  \/ POSTProcessValidate
  \/ runPythonSearch
  \/ stdoutData
  \/ stderrData
  \/ pythonClose
  \/ pythonError
  \/ pythonTimeout
  \/ POSTProcessRespond
  \/ POSTPhotoValidate
  \/ POSTPhotoWrite
  \/ runPhotoSearch
  \/ photoStdoutData
  \/ photoStderrData
  \/ photoClose
  \/ photoError
  \/ photoTimeout
  \/ POSTPhotoRespond

SpecChild == InitChild /\ [][NextChild]_vars

\* One platform check for each platform and each answer the network can give it.
InitPlatformCheck ==
  /\ InitRoute({"platformCheck"}, PlatformCheckInputs, BOOLEAN)
  /\ req.answer \in Answers({NoBody})

NextPlatformCheck ==
  \/ platformCheckFetch
  \/ platformCheckReturn

SpecPlatformCheck == InitPlatformCheck /\ [][NextPlatformCheck]_vars

\* A request to the breach-check route; line 3: the key is read when the module loads.
InitCheck ==
  /\ handler = "check"
  /\ online \in BOOLEAN
  /\ req \in CheckRequests
  /\ pc = "start"
  /\ leakcheckKey \in {"set", "unset"}
  /\ numverifyKey = "unread"
  /\ results = <<>>
  /\ platformResults = <<>>
  /\ probe = IdleProbes
  /\ response = NoResponse
  /\ python = "none"
  /\ stdout = <<>>
  /\ stderr = <<>>
  /\ promise = NoPromise
  /\ timer = "none"
  /\ kills = <<>>
  /\ exitCode = "none"
  /\ settledBy = "none"
  /\ tempFile = "none"
  /\ page = InitialPage
  /\ inFlight = <<>>

NextCheck ==
  \/ POSTCheck
  \/ POSTCheckRespond

SpecCheck == InitCheck /\ [][NextCheck]_vars

\* The search page as the browser first shows it; it sends no request by itself.
NoRequest == [query |-> Missing, type |-> NoType, state |-> NoState, deepScan |-> FALSE]
InitPage == InitRoute({"page"}, {NoRequest}, {TRUE})

NextPage ==
  \/ onClickTab
  \/ onChangeQuery
  \/ onChangeName
  \/ handleSearch
  \/ handleSearchSettled

SpecPage == InitPage /\ [][NextPage]_vars

\* ================================================================ the claims
\* The direct route answered with a profile.
DirectProfile == handler = "direct" /\ response.status = 200

\* The number of results whose found flag is true.
TrueCount(res) == Cardinality({i \in DOMAIN res : res[i].found = JsTrue})

\* The sources a search of the request's type looks up, in the order of the code.
ApplicableProviders ==
  CASE req.type = "email" ->
         (IF leakcheckKey = "set" THEN <<"LeakCheck">> ELSE <<>>) \o <<"GitHub", "Gravatar">>
    [] req.type = "username" -> <<"GitHub">> \o socialPlatforms
    [] req.type = "phone" ->
         <<"Phone Parser">> \o (IF numverifyKey = "set" THEN <<"Numverify">> ELSE <<>>)
           \o <<"Manual Lookups">>
    [] req.type = "name" -> <<"CourtListener", "Manual Lookups">>
    [] OTHER -> <<>>

\* The entries of source n in res.
EntriesOf(res, n) == {i \in DOMAIN res : res[i].source = n}

\* The request passed the validation of POST.
Accepted == pc # "start" /\ response.status # 400

\* C1: every profile of the direct route has risk_score = min(100, 15 * the number of
\* results whose found flag is true), so 0 <= risk_score <= 100: 2 found give 30,
\* 3 found 45, 7 or more 100.
C1_RiskScore ==
  DirectProfile =>
    LET p == response.profile
        n == TrueCount(p.results)
    IN /\ p.risk_score = Min(100, 15 * n)
       /\ p.risk_score \in 0..100
       /\ n = 2 => p.risk_score = 30
       /\ n = 3 => p.risk_score = 45
       /\ n >= 7 => p.risk_score = 100

\* C1, its case: a profile with seven or more found results, one of them not a platform's.
C1_Witness ==
  /\ DirectProfile
  /\ TrueCount(response.profile.results) >= 7
  /\ response.profile.results[1].found = JsTrue
  /\ response.profile.risk_score = 100

\* C2: a profile holds exactly one result per applicable provider, whatever the
\* providers' outcomes were.
C2_OneResultPerProvider ==
  DirectProfile => Len(response.profile.results) = Len(ApplicableProviders)

\* C3: when exactly one provider's probe threw (the network is down and one probe ran),
\* the request succeeds with the full result count and that provider's entry, found false.
C3_PartialFailureIsolation ==
  (/\ handler = "direct"
   /\ pc = "done"
   /\ Accepted
   /\ ~online
   /\ Cardinality({p \in Probes : probe[p] = "settled"}) = 1)
  => /\ response.status = 200
     /\ Len(response.profile.results) = Len(ApplicableProviders)
     /\ \A p \in Probes :
          probe[p] = "settled" =>
            \E i \in DOMAIN response.profile.results :
              /\ response.profile.results[i].source = p
              /\ response.profile.results[i].found = JsFalse

\* C4: the result sequence of a username search is in the declared order, the GitHub
\* entry first and the platforms' entries after it in the order of socialPlatforms,
\* whichever check resolves first.
C4_RegistryOrder ==
  /\ \A i \in DOMAIN platformResults :
       platformResults[i] # Pending => platformResults[i].source = socialPlatforms[i]
  /\ (DirectProfile /\ req.type = "username") =>
       /\ response.profile.results[1].source = "GitHub"
       /\ \A i \in 1..NumPlatforms : response.profile.results[i + 1].source = socialPlatforms[i]

\* C4, its case: the last platform's check resolved while the first one's is pending.
C4_Witness ==
  /\ pc = "username:platforms"
  /\ platformResults[NumPlatforms] # Pending
  /\ platformResults[NumPlatforms].found = JsTrue
  /\ platformResults[1] = Pending

\* Nothing was looked up: no fetch started, no process spawned, no timer armed.
NothingStarted ==
  /\ \A p \in Probes : probe[p] = "idle"
  /\ python = "none"
  /\ timer = "none"
  /\ promise = NoPromise
  /\ results = <<>>

\* C5, as claimed: an email query without '@' is answered 400 'Invalid email format'.
C5_AsClaimed ==
  (req.type = "email" /\ req.query # Missing /\ ~Includes(req.query, "@") /\ pc = "done")
  => response = ErrorResponse(400, <<"Invalid email format">>)

\* C5, amended: a non-empty email query without '@' is answered 400 'Invalid email
\* format' by both routes, and nothing is looked up for it at any time (an empty one
\* is answered 400 'Query and type are required').
C5_InvalidEmailRejected ==
  (req.type = "email" /\ ~Includes(req.query, "@"))
  => /\ NothingStarted
     /\ pc \in {"start", "done"}
     /\ pc = "done" =>
          response = ErrorResponse(400, IF Falsy(req.query) THEN <<"Query and type are required">>
                                        ELSE <<"Invalid email format">>)

\* C5, its case: the process-backed route rejected "a" as an email.
C5_Witness ==
  /\ handler = "process"
  /\ req.type = "email"
  /\ req.query = <<"a">>
  /\ pc = "done"
  /\ response.status = 400

\* C6: a name query is accepted exactly when the split on its first space gives a
\* non-empty first name and a non-empty last name; every other one is answered 400
\* 'Please provide first and last name'.
C6_NameNeedsFirstAndLast ==
  (req.type = "name" /\ ~Falsy(req.query) /\ pc # "start")
  => IF firstName(req.query) # <<>> /\ lastName(req.query) # <<>>
     THEN response.status # 400
     ELSE response = ErrorResponse(400, <<"Please provide first and last name">>)

\* C7: a non-empty phone or username query is never answered 400; an empty or missing
\* query, or a missing type, is answered 400 'Query and type are required'.
C7_PhoneAndUsernameAccepted ==
  pc # "start" =>
    /\ (Falsy(req.query) \/ req.type = NoType)
         => response = ErrorResponse(400, <<"Query and type are required">>)
    /\ (req.type \in {"phone", "username"} /\ ~Falsy(req.query))
         => /\ response.status # 400
            /\ pc = "done" => response.status \in {200, 500}

\* C7, its case: a username made of '@' and a space was searched and answered.
C7_Witness ==
  /\ handler = "direct"
  /\ req.type = "username"
  /\ req.query = <<"@", " ">>
  /\ response.status = 200
  /\ Len(response.profile.results) = NumPlatforms + 1

\* C8: every profile of a phone or a name search holds exactly one Manual Lookups
\* entry, found true, with a non-empty list of links.
C8_ManualLookups ==
  (DirectProfile /\ req.type \in {"phone", "name"}) =>
    LET res == response.profile.results IN
      /\ Cardinality(EntriesOf(res, "Manual Lookups")) = 1
      /\ \A i \in EntriesOf(res, "Manual Lookups") :
           /\ res[i].found = JsTrue
           /\ Len(res[i].data.links) > 0

\* C8, its case: a phone search with a Numverify key whose Numverify check threw.
C8_Witness ==
  /\ DirectProfile
  /\ req.type = "phone"
  /\ numverifyKey = "set"
  /\ EntriesOf(response.profile.results, "Numverify") = {}
  /\ EntriesOf(response.profile.results, "Manual Lookups") # {}

C10_EventuallyAnswered == Accepted ~> (pc = "done")

\* ------------------------------------------ the process-backed providers
\* The object a 200 of a process-backed route carries.
Returned == IF handler = "photo" THEN response.result ELSE response.profile

\* The request was answered 200 with a non-empty list of manual links.
AnsweredWithManualLinks ==
  /\ response.status = 200
  /\ "reverse_search_links" \in DOMAIN Returned
  /\ Returned.reverse_search_links # <<>>

\* The run of the script was ended by the timer, and the request is answered.
TimedOut == handler \in {"process", "photo"} /\ pc = "done" /\ settledBy = "timeout"

\* C11: when the timeout expires before the script exits, the process is killed and the
\* caller gets a 200 with a non-empty manual-links fallback, never an error, for the
\* people-search script and the photo-analysis script alike.
C11_TimeoutFallback ==
  TimedOut => /\ kills # <<>>
              /\ kills[1] = "running"
              /\ AnsweredWithManualLinks

\* The script exited non-zero with parseable JSON on stdout before the timer fired, and
\* the request is answered.
ExitedNonZeroWithJson ==
  /\ handler \in {"process", "photo"}
  /\ pc = "done"
  /\ settledBy = "close"
  /\ exitCode # "0"
  /\ Parseable(stdout)

\* C12: when the script exits non-zero but its stdout is parseable JSON, the parsed output
\* is what the caller gets, in preference to the fallback and to any error.
C12_SalvagedOutput ==
  ExitedNonZeroWithJson => /\ response.status = 200
                           /\ Returned = Parsed(stdout)

\* The script ran without leaving parseable JSON on stdout, or could not be started, and
\* the request is answered.
NoParseableOutput ==
  /\ handler \in {"process", "photo"}
  /\ pc = "done"
  /\ IF settledBy = "close" THEN ~Parseable(stdout) ELSE settledBy = "error"

\* C13: when the script prints no parseable JSON (exit zero or not) or cannot be started,
\* the caller gets the manual-links fallback with a non-empty list in a 200.
C13_NoOutputFallback == NoParseableOutput => AnsweredWithManualLinks

\* The 500 body that tells nothing about the exception, for each route.
GenericFailure ==
  IF handler = "photo" THEN [status |-> 500, error |-> <<"Photo search failed">>]
  ELSE [status |-> 500, error |-> <<"Search failed">>]

\* C14: an unexpected internal failure is answered 500 with a generic body that does not
\* depend on the exception: all 500s of a route are the same body, whatever the
\* message, stderr or stdout of the failure.
C14_GenericFailureBody == response.status = 500 => response = GenericFailure

\* ------------------------------------------------------------ credentials
NotLeakCheck(r) == r.source # "LeakCheck"
NotNumverify(r) == r.source # "Numverify"

\* What GitHub and Gravatar can contribute to an email search, over every answer of the
\* two, whether or not LeakCheck is asked first.
OtherEmailEntries ==
  {EmailGitHubResult(g) \o GravatarResult(v) :
     g \in Answers(GitHubBodies), v \in Answers({NoBody})}

\* What the parser and the links contribute to a phone search.
OtherPhoneEntries == <<PhoneParserResult(req.query), ManualLookups(PhoneLinks(req.query))>>

\* C15: a provider whose credential is absent (LeakCheck for email, Numverify for phone)
\* is skipped: no request is sent to it, it contributes no entry (so no found = true
\* entry), and the entries of the other providers are what they are with the credential.
C15_SkippedWithoutCredential ==
  handler = "direct" =>
    /\ leakcheckKey = "unset" =>
         probe["LeakCheck"] = "idle" /\ EntriesOf(results, "LeakCheck") = {}
    /\ numverifyKey = "unset" =>
         probe["Numverify"] = "idle" /\ EntriesOf(results, "Numverify") = {}
    /\ (DirectProfile /\ req.type = "email") =>
         SelectSeq(response.profile.results, NotLeakCheck) \in OtherEmailEntries
    /\ (DirectProfile /\ req.type = "phone") =>
         SelectSeq(response.profile.results, NotNumverify) = OtherPhoneEntries

\* An email search without the LeakCheck key found the account on both other sources.
C15_Witness ==
  /\ DirectProfile
  /\ req.type = "email"
  /\ leakcheckKey = "unset"
  /\ Len(response.profile.results) = 2

\* -------------------------------------------------------------- deep scan
\* The sources a search has asked or computed an entry for.
Probed ==
  {p \in Probes : probe[p] # "idle"} \cup {results[i].source : i \in DOMAIN results}

\* The sources of a search without deep scan.
FastProviders == {ApplicableProviders[i] : i \in DOMAIN ApplicableProviders}

\* C16: with deepScan = true a search probes every provider of the search without it
\* plus additional, slower ones; with deepScan = false only the fast ones.
C16_DeepScanWidens ==
  DirectProfile =>
    IF req.deepScan THEN FastProviders \subseteq Probed /\ Probed \ FastProviders # {}
    ELSE Probed \subseteq FastProviders

\* ------------------------------------------------------ the response profile
\* C17: within one profile no two entries of results carry the same source name, for
\* every query type and every outcome of the sources.
C17_SourcesUnique ==
  DirectProfile =>
    \A i, j \in DOMAIN response.profile.results :
      response.profile.results[i].source = response.profile.results[j].source => i = j

\* A username search answered with its eleven entries.
C17_Witness == DirectProfile /\ Len(response.profile.results) = 1 + NumPlatforms

\* The source names of the entries of res whose found flag is true, in the order of res.
RECURSIVE NamesOfFound(_)
NamesOfFound(res) ==
  IF res = <<>> THEN <<>>
  ELSE (IF Head(res).found = JsTrue THEN <<Head(res).source>> ELSE <<>>)
         \o NamesOfFound(Tail(res))

\* C18: the summary of a 200 is computed from results alone: total_sources is the length
\* of results, matches_found the number of results with found true and the length of
\* sources_with_data, and sources_with_data the source names of the found results in
\* the order of results.
C18_SummaryFromResults ==
  DirectProfile =>
    LET p == response.profile IN
      /\ p.summary.total_sources = Len(p.results)
      /\ p.summary.matches_found = TrueCount(p.results)
      /\ p.summary.matches_found = Len(p.summary.sources_with_data)
      /\ p.summary.sources_with_data = NamesOfFound(p.results)

\* A profile in which a source that found nothing comes before one that found something.
C18_Witness ==
  /\ DirectProfile
  /\ \E i, j \in DOMAIN response.profile.results :
       /\ i < j
       /\ response.profile.results[i].found # JsTrue
       /\ response.profile.results[j].found = JsTrue

\* ----------------------------------------------------------- classification
\* The outcome of classifying a (query, type) pair: the message of the 400, or "ok".
Classification(query, type) ==
  CASE query = Missing \/ query = <<>> \/ type = NoType -> "Query and type are required"
    [] query # Missing /\ query # <<>> /\ type = "email" /\ IndexOf(query, "@") = 0 ->
         "Invalid email format"
    [] query # Missing /\ query # <<>> /\ type = "name" /\ IndexOf(query, " ") = 0 ->
         "Please provide first and last name"
    [] OTHER -> "ok"

\* C19: the acceptance or the rejection (status and message) of a request is a function
\* of its (query, type) pair alone: the same for both routes, whatever the deep-scan
\* flag, the state attribute, the credentials and the network.
C19_ClassificationDeterministic ==
  (handler \in {"direct", "process"} /\ pc # "start") =>
    IF Classification(req.query, req.type) = "ok" THEN response.status # 400
    ELSE response = ErrorResponse(400, <<Classification(req.query, req.type)>>)

\* The same name query was rejected with deep scan and a state attribute set.
C19_Witness ==
  /\ req.type = "name"
  /\ req.query = <<"a", "a">>
  /\ req.deepScan
  /\ req.state = "CA"
  /\ response = ErrorResponse(400, <<"Please provide first and last name">>)

\* ------------------------------------------------- one outcome of a script run
IsSettled(p) == p.state \in {"fulfilled", "rejected"}

\* What the caller is answered for a settled promise.
Delivered(p) ==
  IF p.state = "rejected" THEN ErrorResponse(500, p.reason)
  ELSE IF handler = "photo" THEN [status |-> 200, result |-> p.value]
  ELSE [status |-> 200, profile |-> p.value]

\* C20: in every run of a script, under every interleaving of the stdout, stderr,
\* close, error and timeout events, the promise is settled by the first close, error
\* or timeout, no later event changes it, the caller is answered once, with that
\* outcome, and nothing of the output is answered while the promise is pending.
C20_OneOutcome ==
  [][/\ (promise = PendingPromise /\ (python' \in {"closed", "failed"} \/ timer' = "fired"))
          => IsSettled(promise')
     /\ IsSettled(promise) => promise' = promise
     /\ (promise = PendingPromise /\ promise' = PendingPromise) => response' = NoResponse
     /\ (IsSettled(promise) /\ response # NoResponse)
          => response' = response /\ response = Delivered(promise)
    ]_vars

\* The timer settled the promise, the close event of the killed script came after it,
\* and the request is answered.
C20_Witness ==
  /\ settledBy = "timeout"
  /\ python = "closed"
  /\ exitCode = "null"
  /\ stdout # <<>>
  /\ pc = "done"

\* ---------------------------------------------------------- provider errors
\* Source p has an entry with found false whose data carries an error descriptor.
DegradedEntry(res, p) ==
  \E i \in DOMAIN res :
    /\ res[i].source = p
    /\ res[i].found = JsFalse
    /\ "error" \in DOMAIN res[i].data

\* C21: a provider whose fetch fails is caught inside its probe and leaves an entry with
\* found = false and the error in its data; the response is never an error because of
\* it.  Stated with the network down, when every fetch that was made has failed.
C21_ProviderErrorDegrades ==
  (handler = "direct" /\ ~online /\ pc = "done" /\ response.status # 400) =>
    /\ response.status = 200
    /\ \A p \in Probes : probe[p] = "settled" => DegradedEntry(response.profile.results, p)

\* ------------------------------------------------------------- found flags
\* The LeakCheck answer kept in an entry's data indicates at least one matched record.
MatchedRecords(d) == "found" \in DOMAIN d /\ (d.found = JsTrue \/ d.result = "nonempty")

\* C22: the found flag of the LeakCheck entry is a boolean, true iff the answer
\* indicates at least one matched record; for an answer with no result list or an
\* empty one it is false, not absent and not another value.
C22_LeakCheckFoundBoolean ==
  DirectProfile =>
    \A i \in DOMAIN response.profile.results :
      response.profile.results[i].source = "LeakCheck" =>
        response.profile.results[i].found = JsBool(MatchedRecords(response.profile.results[i].data))

\* C23: a platform entry has found = true iff the final status of its probe is exactly
\* 200; any other status or a thrown error gives found = false; a found entry carries
\* the profile url as url and as data.profile_url, a not-found one empty data and no url.
C23_PlatformFoundIff200 ==
  (handler = "platformCheck" /\ pc = "done") =>
    LET name == socialPlatforms[req.platform]
        hit == req.answer.kind = "response" /\ req.answer.status = 200
        entry == results[1]
    IN /\ Len(results) = 1
       /\ entry.source = name
       /\ entry.found = JsBool(hit)
       /\ entry.url = (IF hit THEN PlatformUrl(name) ELSE NoUrl)
       /\ IF hit THEN entry.data = [profile_url |-> PlatformUrl(name)]
          ELSE entry.data = EmptyData

\* A probe answered 204, a success that is not 200, gave a not-found entry.
C23_Witness ==
  /\ handler = "platformCheck"
  /\ pc = "done"
  /\ req.answer.kind = "response"
  /\ req.answer.status = 204
  /\ results[1].found = JsFalse

\* ---------------------------------------------------------- the phone parser
\* searchPhone has run up to its first await, or to its end.
PhoneSearched ==
  /\ handler = "direct"
  /\ req.type = "phone"
  /\ pc \in {"phone:Numverify", "done"}
  /\ response.status # 400

\* C24: the results of every phone search start with the one 'Phone Parser' entry,
\* found = true, made of the query alone: it is there before the Numverify fetch
\* settles, with or without the Numverify key, whatever Numverify answers.
C24_PhoneParserFirst ==
  PhoneSearched =>
    /\ results # <<>>
    /\ Head(results).source = "Phone Parser"
    /\ Head(results).found = JsTrue
    /\ Head(results).data.original = req.query
    /\ Cardinality(EntriesOf(results, "Phone Parser")) = 1
    /\ pc = "done" => Head(response.profile.results) = Head(results)

\* The parser's entry is in the results while the Numverify fetch is pending.
C24_Witness ==
  /\ PhoneSearched
  /\ numverifyKey = "set"
  /\ probe["Numverify"] = "pending"
  /\ Len(results) = 1

\* ------------------------------------------------------- the username search
\* The sources searchUsername is declared to look up.
UsernameSources ==
  {"GitHub", "Twitter/X", "Instagram", "TikTok", "Reddit", "Pinterest", "LinkedIn",
   "YouTube", "Twitch", "Medium", "DevTo"}

\* C25: searchUsername returns exactly 11 results, one for GitHub and one for each of the
\* 10 platforms, whatever each probe got (200, another status, a thrown error); the
\* answer is a 200, never the 500 of a rejected Promise.all.
C25_ElevenResults ==
  (handler = "direct" /\ req.type = "username" /\ pc = "done" /\ response.status # 400) =>
    /\ response.status = 200
    /\ Len(response.profile.results) = 11
    /\ \A s \in UsernameSources : Cardinality(EntriesOf(response.profile.results, s)) = 1

\* A username search in which GitHub and a platform failed and a platform was found.
C25_Witness ==
  /\ DirectProfile
  /\ req.type = "username"
  /\ response.profile.results[1].found = JsFalse
  /\ response.profile.results[2].found = JsFalse
  /\ response.profile.results[11].found = JsTrue

\* ------------------------------------------------------- the timer of a run
\* C26: kill is only ever called on a process that is still running, never on one that
\* has closed or failed to start, and no timer of a settled run remains pending.
C26_NoKillAfterClose ==
  /\ \A i \in DOMAIN kills : kills[i] = "running"
  /\ IsSettled(promise) => timer # "armed"

\* ------------------------------------------------------ the uploaded photo
\* C27: on the photo route, a request whose upload was written to the temporary
\* directory is not answered before the deletion of that file was attempted, whatever
\* the outcome of the script (output, non-zero exit, unparseable output, spawn error,
\* timeout); a request without a photo is answered 400 'No photo provided' with no
\* file written and no process spawned.
C27_TempFileUnlinked ==
  handler = "photo" =>
    /\ (response # NoResponse /\ tempFile # "none") => tempFile \in {"unlinked", "unlink failed"}
    /\ (pc = "done" /\ python # "none") => response.status = 200 /\ tempFile # "written"
    /\ req.photo = JsNull =>
         /\ tempFile = "none"
         /\ python = "none"
         /\ pc = "done" => response = ErrorResponse(400, <<"No photo provided">>)

\* A photo whose analysis timed out was answered after its file was deleted.
C27_Witness ==
  /\ handler = "photo"
  /\ pc = "done"
  /\ settledBy = "timeout"
  /\ tempFile = "unlinked"

\* ------------------------------------------------------ the breach check
\* C28: on the breach-check route a missing email or one without '@' is answered 400
\* 'Valid email required' whether or not the API key is configured, a valid email
\* without the key 500 'API key not configured', and in neither case is a request sent
\* to LeakCheck.
C28_ChecksOrdered ==
  handler = "check" =>
    IF req.email = Missing \/ IndexOf(req.email, "@") = 0
    THEN /\ probe["LeakCheck"] = "idle"
         /\ pc = "done" => response = ErrorResponse(400, <<"Valid email required">>)
    ELSE leakcheckKey = "unset" =>
           /\ probe["LeakCheck"] = "idle"
           /\ pc = "done" => response = ErrorResponse(500, <<"API key not configured">>)

\* An email without '@' was rejected on a server without the key.
C28_Witness ==
  /\ handler = "check"
  /\ req.email = <<"a">>
  /\ leakcheckKey = "unset"
  /\ response.status = 400

\* ----------------------------------------------------------- the search page
\* C29: on the search page loading is true exactly while a search request is in flight:
\* true from the submission, false after every outcome (profile, error response,
\* failure of the fetch); while it is true the submit button is disabled, so at most
\* one request is in flight at any time.
C29_LoadingWhileInFlight ==
  handler = "page" =>
    /\ page.loading <=> inFlight # <<>>
    /\ page.loading => SubmitDisabled(page)
    /\ Len(inFlight) <= 1

\* A search was answered with an error response and the page is idle again, a query
\* typed and the button enabled.
C29_Witness ==
  /\ handler = "page"
  /\ page.result = ErrorResult
  /\ ~page.loading
  /\ ~SubmitDisabled(page)

\* C30: whenever the page displays a result profile, the profile's query_type is the
\* search type currently selected, also when a tab is clicked while a request is in
\* flight.
C30_ResultMatchesTab ==
  (handler = "page" /\ page.result.kind = "profile") => page.result.query_type = page.searchType
====
